---- MODULE Spec2Model ----
(***************************************************************************)
(* mac_apt.py: discovery of the macOS installation inside an evidence      *)
(* image.  The model covers the image-type inputs (DD, DMG, E01, VMDK,     *)
(* AFF4, SPARSE): password handling, the whole-image APFS / HFS checks,    *)
(* the partition scan, the APFS container orchestrator with its sqlite     *)
(* volume cache, the plugin loop and the final cleanup.  One process run   *)
(* is a walk of pc from "password" to "done" (or "exited" / "crashed");    *)
(* the cache files in the output folder survive from one run to the next.  *)
(***************************************************************************)
EXTENDS Integers, Sequences, FiniteSets, TLC

VARIABLES
    whole,        \* what the image holds at offset 0 (fixed input)
    table,        \* the partition table of the image, known once read
    files,        \* output folder: APFS_Volumes_<UUID>.db per container uuid
    pc,           \* position of the main script
    caller,       \* who invoked FindMacOsPartitionInApfsContainer
    cur,          \* arguments of the current orchestrator invocation
    inv,          \* the orchestrator invocation in progress or just returned
    mac_info,     \* the global installation context
    found_macos,  \* the script's found_macos
    scan,         \* locals of FindMacOsPartition
    img,          \* the image stream: open flag, close count, use after close
    handles,      \* SqliteWriter handles opened by this run
    log,          \* what the run has logged / executed
    plugins_run,  \* names of the plugins started, in order
    prev,         \* summary of the previous run
    args_plugin,  \* args.plugin: the plugin names typed on the command line
    plugins_to_run,       \* the script's plugins_to_run
    plugins_not_to_run,   \* the script's plugins_not_to_run
    export_log_sqlite     \* output_params.export_log_sqlite: the export log store

\* the plugin selection of the run
selection == <<args_plugin, plugins_to_run, plugins_not_to_run>>

vars == <<whole, table, files, pc, caller, cur, inv, mac_info,
          found_macos, scan, img, handles, log, plugins_run, prev, selection,
                   export_log_sqlite>>

----------------------------------------------------------------------------
(* Bounds of the model *)

MaxParts == 2      \* partition entries in a table (the GPT Header entry apart)

(* Program constants *)

block_size == 512          \* vs_info.block_size of the images modelled
ApfsMagicOffset == 32      \* 0x20
HfsMagicOffset == 1024     \* 0x400
GptEntrySize == 128

NXSB == <<78, 88, 83, 66>>
HfsMagics == {<<72, 88>>, <<72, 43>>}
\* UUID("{ef57347c-0000-aa11-aa11-00306543ecac}") as 16 bytes
ApfsTypeGuid == <<239, 87, 52, 124, 0, 0, 170, 17, 170, 17, 0, 48, 101, 67, 236, 172>>
HfsTypeGuid == <<0, 83, 70, 72, 0, 0, 170, 17, 170, 17, 0, 48, 101, 67, 236, 172>>
Zero16 == <<0, 0, 0, 0, 0, 0, 0, 0, 0, 0, 0, 0, 0, 0, 0, 0>>
ReadFail == <<-1>>         \* img.read raised

----------------------------------------------------------------------------
(* The evidence: volumes, containers, filesystems, partitions *)

NoVol == [id |-> 0, role |-> "NONE", ver |-> FALSE]
Vol(id, role, ver) == [id |-> id, role |-> role, ver |-> ver]

NoCont == [vols |-> <<>>, enc |-> FALSE, combine |-> FALSE]
Cont(vols, enc, combine) == [vols |-> vols, enc |-> enc, combine |-> combine]

\* ver: /System/Library/CoreServices/SystemVersion.plist is present
C_SD     == Cont(<<Vol(1, "SYSTEM", TRUE), Vol(2, "DATA", FALSE)>>, FALSE, TRUE)
C_SDPU   == Cont(<<Vol(1, "SYSTEM", TRUE), Vol(2, "DATA", FALSE),
                   Vol(3, "PREBOOT", FALSE), Vol(4, "UPDATE", FALSE)>>, FALSE, TRUE)
C_SDPUn  == Cont(<<Vol(1, "SYSTEM", FALSE), Vol(2, "DATA", FALSE),
                   Vol(3, "PREBOOT", FALSE), Vol(4, "UPDATE", FALSE)>>, FALSE, TRUE)
C_SDPUc  == Cont(C_SDPU.vols, FALSE, FALSE)
C_SDPUe  == Cont(C_SDPU.vols, TRUE, TRUE)
C_S      == Cont(<<Vol(1, "SYSTEM", TRUE)>>, FALSE, TRUE)
C_L      == Cont(<<Vol(5, "OTHER", FALSE), Vol(6, "OTHER", TRUE)>>, FALSE, TRUE)
C_LL     == Cont(<<Vol(6, "OTHER", TRUE), Vol(7, "OTHER", TRUE)>>, FALSE, TRUE)
C_N      == Cont(<<Vol(5, "OTHER", FALSE)>>, FALSE, TRUE)

WholeConts == {C_SD, C_SDPU, C_SDPUn, C_SDPUc, C_SDPUe, C_S, C_L, C_LL, C_N}
PartConts == {C_SDPU, C_SDPUe}

\* what pytsk3.FS_Info / open_dir("/") give on a partition
NoFs      == [ftype |-> "NONE", root |-> FALSE, ver |-> FALSE]
FsHfsVer  == [ftype |-> "HFS", root |-> TRUE, ver |-> TRUE]
FsHfsNo   == [ftype |-> "HFS", root |-> TRUE, ver |-> FALSE]
FsOther   == [ftype |-> "OTHER", root |-> TRUE, ver |-> FALSE]

Whole(magic, hfs, fs, cont) == [magic |-> magic, hfs |-> hfs, fs |-> fs, cont |-> cont]

WholeKinds ==
    {Whole("fail", "zero", NoFs, NoCont),
     Whole("zero", "fail", NoFs, NoCont),
     Whole("zero", "zero", NoFs, NoCont),
     Whole("zero", "H+", FsHfsVer, NoCont),
     Whole("zero", "H+", FsHfsNo, NoCont),
     Whole("zero", "HX", FsOther, NoCont)}
    \cup {Whole("NXSB", "zero", NoFs, c) : c \in WholeConts}

Part(flags, desc, magic, guid, fs, cont) ==
    [flags |-> flags, desc |-> desc, magic |-> magic, guid |-> guid,
     fs |-> fs, cont |-> cont]

PartKinds ==
    {Part({"ALLOC"}, "EFI System Partition", "zero", "other", FsOther, NoCont),
     Part({"ALLOC"}, "Apple_partition_map", "zero", "other", FsOther, NoCont),
     Part({"UNALLOC"}, "Unallocated", "zero", "other", NoFs, NoCont),
     Part({"ALLOC"}, "Macintosh HD", "zero", "hfs", FsHfsVer, NoCont),
     Part({"ALLOC"}, "Macintosh HD", "zero", "hfs", FsHfsNo, NoCont),
     Part({"ALLOC"}, "disk image", "fail", "apfs", NoFs, NoCont),
     Part({"ALLOC"}, "Recovery", "NXSB", "other", NoFs, C_N),
     Part({"ALLOC"}, "disk image", "NXSB", "fail", NoFs, C_SDPU)}
    \cup {Part({"ALLOC"}, "disk image", "NXSB", "apfs", NoFs, c) : c \in PartConts}

SeqsUpTo(S, n) == UNION {[1..k -> S] : k \in 0..n}

UnknownTable == [st |-> "unknown", hdr |-> -1, parts |-> <<>>]
FailTable == [st |-> "fail", hdr |-> -1, parts |-> <<>>]
\* hdr: the number of partition entries listed before the GPT Header entry
\* (it is listed first or last), -1 when the table has no such entry
Tables ==
    {FailTable} \cup
    UNION {{[st |-> "ok", hdr |-> h, parts |-> p] : h \in {-1, 0, Len(p)}} :
             p \in SeqsUpTo(PartKinds, MaxParts)}

----------------------------------------------------------------------------
(* The image stream: img.read(offset, size) *)

MagicBytes(tok) ==
    CASE tok = "NXSB" -> NXSB
      [] tok = "fail" -> ReadFail
      [] OTHER -> <<0, 0, 0, 0>>

HfsBytes(tok) ==
    CASE tok = "H+" -> <<72, 43>>
      [] tok = "HX" -> <<72, 88>>
      [] tok = "fail" -> ReadFail
      [] OTHER -> <<0, 0>>

GuidBytes(tok) ==
    CASE tok = "apfs" -> ApfsTypeGuid
      [] tok = "hfs" -> HfsTypeGuid
      [] tok = "fail" -> ReadFail
      [] OTHER -> Zero16

\* first block of the i-th partition entry, and its slot in the GPT entry array
PartStart(i) == 40 + 1000 * (i - 1)
PartLen == 1000
PartSlot(i) == i - 1
GptHeaderStart == 1

\* the partition (index in table.parts) that starts at byte offset off, or 0
PartAt(off) ==
    IF \E i \in 1..Len(table.parts) : block_size * PartStart(i) = off
    THEN CHOOSE i \in 1..Len(table.parts) : block_size * PartStart(i) = off
    ELSE 0

\* the partition whose GPT entry starts at byte offset off, or 0; the entry
\* array follows the header block on a GPT disk
GptEntryAt(off) ==
    LET base == block_size * GptHeaderStart + block_size IN
    IF /\ table.hdr # -1
       /\ \E i \in 1..Len(table.parts) : base + GptEntrySize * PartSlot(i) = off
    THEN CHOOSE i \in 1..Len(table.parts) : base + GptEntrySize * PartSlot(i) = off
    ELSE 0

ImgRead(off, size) ==
    IF off < 0 THEN ReadFail
    ELSE CASE size = 4 ->
                IF off = ApfsMagicOffset THEN MagicBytes(whole.magic)
                ELSE IF PartAt(off - ApfsMagicOffset) # 0
                     THEN MagicBytes(table.parts[PartAt(off - ApfsMagicOffset)].magic)
                     ELSE <<0, 0, 0, 0>>
           [] size = 2 ->
                IF off = HfsMagicOffset THEN HfsBytes(whole.hfs) ELSE <<0, 0>>
           [] OTHER ->
                IF GptEntryAt(off) # 0
                THEN GuidBytes(table.parts[GptEntryAt(off)].guid)
                ELSE Zero16

----------------------------------------------------------------------------
(* Signature checks: "true", "false", or "raise" (ValueError) *)

IsApfsContainer(partition_start_offset) ==
    LET r == ImgRead(partition_start_offset + ApfsMagicOffset, 4) IN
    IF r = ReadFail THEN "raise"
    ELSE IF r = NXSB THEN "true" ELSE "false"

IsHFSVolume(partition_start_offset) ==
    LET r == ImgRead(partition_start_offset + HfsMagicOffset, 2) IN
    IF r = ReadFail THEN "raise"
    ELSE IF r \in HfsMagics THEN "true" ELSE "false"

IsApfsBootContainerAnyGuid(gpt_part_offset) ==
    IF ImgRead(gpt_part_offset, 16) = ReadFail THEN "raise" ELSE "true"

IsApfsBootContainer(gpt_part_offset) ==
    LET uuid_bytes == ImgRead(gpt_part_offset, 16) IN
    IF uuid_bytes = ReadFail \/ Len(uuid_bytes) # 16 THEN "raise"
    ELSE IF uuid_bytes = ApfsTypeGuid THEN "true" ELSE "false"

\* the uuid of the container at an offset: the cache key.  The whole-image
\* container and the containers in partitions carry different uuids.
GetApfsContainerUuid(container_start_offset) ==
    IF container_start_offset = 0 THEN 1 ELSE 2

UUIDs == {1, 2}

----------------------------------------------------------------------------
(* The installation context (mac_info) and the validator *)

\* filesystem handles: off is the start of the partition or container, a and
\* b the volumes behind the handle
NoFS == [kind |-> "none", off |-> 0, a |-> 0, b |-> 0, ver |-> FALSE]
HfsFS(off, fs) == [kind |-> "hfs", off |-> off, a |-> 0, b |-> 0, ver |-> fs.ver]
VolFS(off, vol) == [kind |-> "vol", off |-> off, a |-> vol.id, b |-> 0, ver |-> vol.ver]
\* the combined view resolves the system paths on the system volume
CombinedFS(off, sys, data) ==
    [kind |-> "combined", off |-> off, a |-> sys.id, b |-> data.id, ver |-> sys.ver]

\* macinfo.MacInfo(output_params): nothing found yet, no password
MacInfo ==
    [cls |-> "MacInfo", password |-> FALSE, is_apfs |-> FALSE, macos_FS |-> NoFS,
     macos_partition_start_offset |-> 0, hfs_native |-> -1, sysinfo |-> FALSE,
     apfs_sys_volume |-> NoVol, apfs_data_volume |-> NoVol,
     apfs_preboot_volume |-> NoVol, apfs_update_volume |-> NoVol, apfs_db |-> 0]

\* the volume fields set by the role loop: the last volume of a role wins
RECURSIVE ClassifyVolumesSwapped(_, _)
ClassifyVolumesSwapped(mi, vols) ==
    IF vols = <<>> THEN mi
    ELSE LET vol == Head(vols)
             m == CASE vol.role = "SYSTEM" -> [mi EXCEPT !.apfs_data_volume = vol]
                    [] vol.role = "DATA" -> [mi EXCEPT !.apfs_sys_volume = vol]
                    [] vol.role = "PREBOOT" -> [mi EXCEPT !.apfs_preboot_volume = vol]
                    [] vol.role = "UPDATE" -> [mi EXCEPT !.apfs_update_volume = vol]
                    [] OTHER -> mi
         IN ClassifyVolumesSwapped(m, Tail(vols))
RECURSIVE ClassifyVolumes(_, _)
ClassifyVolumes(mi, vols) ==
    IF vols = <<>> THEN mi
    ELSE LET vol == Head(vols)
             m == CASE vol.role = "SYSTEM" -> [mi EXCEPT !.apfs_sys_volume = vol]
                    [] vol.role = "DATA" -> [mi EXCEPT !.apfs_data_volume = vol]
                    [] vol.role = "PREBOOT" -> [mi EXCEPT !.apfs_preboot_volume = vol]
                    [] vol.role = "UPDATE" -> [mi EXCEPT !.apfs_update_volume = vol]
                    [] OTHER -> mi
         IN ClassifyVolumes(m, Tail(vols))

\* macinfo.ApfsMacInfo(output_params, password, dont_decrypt) and the
\* assignments that follow it: a new context that keeps only the password
ApfsMacInfo(old, container_start_offset) ==
    [MacInfo EXCEPT !.cls = "ApfsMacInfo", !.password = old.password,
                    !.is_apfs = TRUE,
                    !.macos_partition_start_offset = container_start_offset]

\* the paths the validator looks up
SystemVersionPlist == "/System/Library/CoreServices/SystemVersion.plist"
KernelsKernel == "/System/Library/Kernels/kernel"
MachKernel == "/mach_kernel"

\* the files of the evidence: the descriptor is where ver says; a kernel is at
\* /System/Library/Kernels/kernel on the combined views and on volume 5, at
\* /mach_kernel on an HFS+ filesystem at offset 0, and nowhere else, so that
\* there are filesystems with and without descriptor, with and without kernel
FilePresent(fs, path) ==
    CASE path = SystemVersionPlist -> fs.ver
      [] path = KernelsKernel -> fs.kind = "combined" \/ (fs.kind = "vol" /\ fs.a = 5)
      [] path = MachKernel -> fs.kind = "hfs" /\ fs.off = 0
      [] OTHER -> FALSE

\* mac_info.IsValidFilePath(path): the path exists on the active filesystem
IsValidFilePath(mi, path) == FilePresent(mi.macos_FS, path)

\* a call's outcome: the value returned, the context it leaves, and the
\* filesystem handles the validator was run against
\* kern: what was logged about the kernel, per filesystem
Ret(ok, mi, seen) == [ok |-> ok, mi |-> mi, seen |-> seen, kern |-> {}]

\* FindMacOsFiles(mac_info)
FindMacOsFilesNeedKernel(mi) ==
    IF /\ IsValidFilePath(mi, SystemVersionPlist)
       /\ IsValidFilePath(mi, KernelsKernel) \/ IsValidFilePath(mi, MachKernel)
    THEN [Ret(TRUE, [mi EXCEPT !.sysinfo = TRUE], {mi.macos_FS})
             EXCEPT !.kern = {<<mi.macos_FS, "found">>}]
    ELSE Ret(FALSE, mi, {mi.macos_FS})
FindMacOsFiles(mi) ==
    IF IsValidFilePath(mi, SystemVersionPlist)
    THEN [Ret(TRUE, [mi EXCEPT !.sysinfo = TRUE], {mi.macos_FS})
             EXCEPT !.kern =
                {<<mi.macos_FS,
                   IF \/ IsValidFilePath(mi, KernelsKernel)
                      \/ IsValidFilePath(mi, MachKernel)
                   THEN "found" ELSE "missing">>}]
    ELSE Ret(FALSE, mi, {mi.macos_FS})

\* IsMacOsPartition(img, partition_start_offset, mac_info); fs is what
\* pytsk3.FS_Info finds at the offset ("NONE": FS_Info raises)
IsMacOsPartitionKeepOffset(fs, partition_start_offset, mi) ==
    IF fs.ftype = "NONE" THEN Ret(FALSE, mi, {})
    ELSE IF fs.ftype # "HFS" THEN Ret(FALSE, mi, {})
    ELSE IF ~fs.root THEN Ret(FALSE, mi, {})
    ELSE FindMacOsFiles([mi EXCEPT !.macos_FS = HfsFS(partition_start_offset, fs)])
IsMacOsPartition(fs, partition_start_offset, mi) ==
    IF fs.ftype = "NONE" THEN Ret(FALSE, mi, {})
    ELSE IF fs.ftype # "HFS" THEN Ret(FALSE, mi, {})
    ELSE IF ~fs.root THEN Ret(FALSE, mi, {})
    ELSE FindMacOsFiles([mi EXCEPT !.macos_FS = HfsFS(partition_start_offset, fs),
                                   !.macos_partition_start_offset = partition_start_offset,
                                   !.hfs_native = partition_start_offset])

\* the filesystem pytsk3.FS_Info finds at a byte offset of the image
FsAt(off) ==
    IF off = 0 THEN whole.fs
    ELSE IF PartAt(off) # 0 THEN table.parts[PartAt(off)].fs ELSE NoFs

----------------------------------------------------------------------------
(* The volume cache: APFS_Volumes_<UUID>.db *)

\* gen tells the files created by the current run (1) from the files that
\* were in the output folder when it started (0)
\* built: the file was created by the orchestrator in a run of the model
NoFile == [exists |-> FALSE, gen |-> 0, ver |-> "none", vols |-> <<>>,
           corrupt |-> FALSE, built |-> FALSE]
NewFile(gen) == [NoFile EXCEPT !.exists = TRUE, !.gen = gen, !.built = TRUE]

\* what WriteVolInfo records of the live volumes: identifier and role
VolInfo(vols) == [i \in 1..Len(vols) |-> [id |-> vols[i].id, role |-> vols[i].role]]

StaleVolInfo == <<[id |-> 9, role |-> "OTHER"]>>

\* ApfsDbInfo.CheckVerInfo / CheckVolInfoAndGetVolEncKey
CheckVerInfo(f) == f.ver = "ok"
CheckVolInfoAndGetVolEncKey(f, vols) == f.vols = VolInfo(vols)

\* the container at a byte offset of the image
ContAt(off) ==
    IF off = 0 THEN whole.cont
    ELSE IF PartAt(off) # 0 THEN table.parts[PartAt(off)].cont ELSE NoCont

\* The output folder is not read before the orchestrator looks for the cache
\* file of a container: what earlier use left there becomes known then.
UnknownFile == [NoFile EXCEPT !.ver = "unknown"]

\* cache files left in the output folder by earlier use, per kind k
InitFile(k, cont) ==
    CASE k = "absent" -> NoFile
      [] k = "oldver" -> [NoFile EXCEPT !.exists = TRUE, !.ver = "old",
                                        !.vols = VolInfo(cont.vols)]
      [] k = "stalevols" -> [NoFile EXCEPT !.exists = TRUE, !.ver = "ok",
                                           !.vols = StaleVolInfo]
      [] k = "valid" -> [NoFile EXCEPT !.exists = TRUE, !.ver = "ok",
                                       !.vols = VolInfo(cont.vols)]
      [] OTHER -> [NoFile EXCEPT !.exists = TRUE, !.corrupt = TRUE]

InitFileKinds == {"absent", "oldver", "stalevols", "valid", "corrupt"}

----------------------------------------------------------------------------
(* The partition table as pytsk3.Volume_Info lists it *)

Entry(flags, desc, start, slot_num) ==
    [flags |-> flags, desc |-> desc, start |-> start, len |-> PartLen,
     slot_num |-> slot_num]

GptHeaderEntry == Entry({"META"}, "GPT Header", GptHeaderStart, -1)

PartEntries(t) ==
    [i \in 1..Len(t.parts) |->
        Entry(t.parts[i].flags, t.parts[i].desc, PartStart(i), PartSlot(i))]

Entries(t) ==
    IF t.hdr = -1 THEN PartEntries(t)
    ELSE SubSeq(PartEntries(t), 1, t.hdr) \o <<GptHeaderEntry>>
         \o SubSeq(PartEntries(t), t.hdr + 1, Len(t.parts))

\* part.desc.decode('utf-8').upper() on the descriptions of the model
Upper(desc) ==
    CASE desc = "EFI System Partition" -> "EFI SYSTEM PARTITION"
      [] desc = "Apple_partition_map" -> "APPLE_PARTITION_MAP"
      [] desc = "Macintosh HD" -> "MACINTOSH HD"
      [] desc = "disk image" -> "DISK IMAGE"
      [] desc = "Recovery" -> "RECOVERY"
      [] desc = "Unallocated" -> "UNALLOCATED"
      [] OTHER -> "GPT HEADER"

----------------------------------------------------------------------------
(* Initial state: the image is open, the context is a plain MacInfo *)

NoInv == [uuid |-> 0, entry |-> NoFile, judged |-> "none", result |-> "none",
          cont |-> NoCont]
NoLog == [readVols |-> FALSE, wroteVolInfo |-> FALSE, wroteVer |-> FALSE,
          errReadVols |-> FALSE, errNoData |-> FALSE, errSqlite |-> FALSE,
          errPartitions |-> FALSE, warned |-> FALSE, validated |-> {},
          scanned |-> FALSE, wholeResult |-> "none", judged |-> "none",
          probes |-> {}, kernel |-> {}, pluginErrors |-> {}]
NoScan == [idx |-> 0, gpt_header_offset |-> -1, gpt_partitions_offset |-> -1]
NoCur == [container_start_offset |-> 0, container_uuid |-> 0]
OpenImg == [open |-> TRUE, closes |-> 0, misuse |-> FALSE]
\* lines 417-424 (SetupExportLogger, called at line 543): the export log store
NoExportLog == [open |-> FALSE, closes |-> 0]
OpenExportLog == [open |-> TRUE, closes |-> 0]
NoPrev == [found |-> FALSE, wholeResult |-> "none"]

Init ==
    /\ whole \in WholeKinds
    /\ table = UnknownTable
    /\ files = [u \in UUIDs |-> UnknownFile]
    /\ pc = "password"
    /\ caller = "none"
    /\ cur = NoCur
    /\ inv = NoInv
    /\ mac_info = MacInfo
    /\ found_macos = FALSE
    /\ scan = NoScan
    /\ img = OpenImg
    /\ handles = <<>>
    /\ log = NoLog
    /\ plugins_run = <<>>
    /\ prev = NoPrev
    /\ args_plugin = <<>>
    /\ plugins_to_run = <<>>
    /\ plugins_not_to_run = <<>>
    /\ export_log_sqlite = OpenExportLog

----------------------------------------------------------------------------
(* The main script up to the partition scan *)

ImgUsed == [img EXCEPT !.misuse = @ \/ ~img.open]

Creds == {"none", "password", "file_ok", "file_bad"}

\* lines 620-632: --password_file / --password; a password file that cannot
\* be read ends the run through Exit()
ReadPassword ==
    /\ pc = "password"
    /\ \E cred \in Creds :
          IF cred = "file_bad"
          THEN /\ pc' = "exited"
               /\ UNCHANGED mac_info
          ELSE /\ pc' = "whole_apfs"
               /\ mac_info' = [mac_info EXCEPT !.password = (cred # "none")]
    /\ UNCHANGED <<whole, table, files, caller, cur, inv,
                   found_macos, scan, img, handles, log, plugins_run, prev, selection,
                   export_log_sqlite>>

\* lines 634-638: IsApfsContainer(img, 0) is called outside any try block
WholeImageApfsCheck ==
    /\ pc = "whole_apfs"
    /\ img' = ImgUsed
    /\ LET r == IsApfsContainer(0) IN
         CASE r = "raise" ->
                /\ pc' = "crashed"
                /\ UNCHANGED <<caller, cur>>
           [] r = "true" ->
                /\ pc' = "orch_init"
                /\ caller' = "whole"
                /\ cur' = [container_start_offset |-> 0,
                           container_uuid |-> GetApfsContainerUuid(0)]
           [] OTHER ->
                /\ pc' = "whole_hfs"
                /\ UNCHANGED <<caller, cur>>
    /\ UNCHANGED <<whole, table, files, inv, mac_info,
                   found_macos, scan, handles, log, plugins_run, prev, selection,
                   export_log_sqlite>>

\* lines 639-640
WholeImageHfsCheck ==
    /\ pc = "whole_hfs"
    /\ img' = ImgUsed
    /\ LET r == IsHFSVolume(0)
           m == IsMacOsPartition(FsAt(0), 0, mac_info) IN
         CASE r = "raise" ->
                /\ pc' = "crashed"
                /\ UNCHANGED <<mac_info, found_macos, log>>
           [] r = "true" ->
                /\ pc' = "vol_info"
                /\ mac_info' = m.mi
                /\ found_macos' = m.ok
                /\ log' = [log EXCEPT !.validated = @ \cup m.seen,
                                      !.kernel = @ \cup m.kern,
                                      !.wholeResult = IF m.ok THEN "true" ELSE "false"]
           [] OTHER ->
                /\ pc' = "vol_info"
                /\ UNCHANGED <<mac_info, found_macos, log>>
    /\ UNCHANGED <<whole, table, files, caller, cur, inv,
                   scan, handles, plugins_run, prev, selection,
                   export_log_sqlite>>

\* line 641: "if not found_macos: # must be a full disk image"
NeedPartitionScanAlways(found) == TRUE
NeedPartitionScan(found) == ~found

\* lines 641-649: pytsk3.Volume_Info(img); the table of the image becomes
\* known when it is first read; a table that cannot be read raises, which the
\* except clause logs
ReadPartitionTable ==
    /\ pc = "vol_info"
    /\ IF ~NeedPartitionScan(found_macos)
       THEN /\ pc' = "plugins"
            /\ UNCHANGED <<table, scan, img, log>>
       ELSE /\ img' = ImgUsed
            /\ IF table.st = "unknown"
               THEN table' \in Tables
               ELSE table' = table
            /\ IF table'.st = "fail"
               THEN /\ pc' = "plugins"
                    /\ log' = [log EXCEPT !.errPartitions = TRUE]
                    /\ UNCHANGED scan
               ELSE /\ pc' = "scan"
                    /\ scan' = [idx |-> 1, gpt_header_offset |-> -1,
                                gpt_partitions_offset |-> -1]
                    /\ log' = [log EXCEPT !.scanned = TRUE]
    /\ inv' = NoInv
    /\ UNCHANGED <<whole, files, caller, cur, mac_info,
                   found_macos, handles, plugins_run, prev, selection,
                   export_log_sqlite>>

\* lines 379-384: the descriptions of the entries the scan skips
SkipDescExact(desc) == desc \in {"EFI SYSTEM PARTITION", "APPLE_PARTITION_MAP"}
SkipDesc(desc) == Upper(desc) \in {"EFI SYSTEM PARTITION", "APPLE_PARTITION_MAP"}

\* lines 388-394: the checks made on the partition at off, a and b being the
\* answers of IsApfsContainer and IsApfsBootContainer: "apfs" the signature
\* check, "boot" the type GUID check, "orch" the orchestrator, "macos"
\* IsMacOsPartition (filesystem type check and validator)
Probes(a, b, off) ==
    {<<"apfs", off>>}
        \cup (IF a = "true" THEN {<<"boot", off>>} ELSE {})
        \cup (IF a = "true" /\ b = "true" THEN {<<"orch", off>>} ELSE {})
        \cup (IF a = "false" THEN {<<"macos", off>>} ELSE {})

\* lines 370-397 and 646-649: one iteration of "for part in vol_info", or the
\* return False after the last entry; a ValueError of a signature check
\* leaves FindMacOsPartition and is logged by the except clause of line 648
FindMacOsPartition ==
    /\ pc = "scan"
    /\ IF scan.idx > Len(Entries(table))
       THEN /\ pc' = "plugins"
            /\ found_macos' = FALSE
            /\ UNCHANGED <<scan, img, mac_info, caller, cur, log>>
       ELSE LET part == Entries(table)[scan.idx]
                partition_start_offset == block_size * part.start
                next == [scan EXCEPT !.idx = @ + 1]
                a == IsApfsContainer(partition_start_offset)
                b == IsApfsBootContainer(scan.gpt_partitions_offset
                                         + GptEntrySize * part.slot_num)
                m == IsMacOsPartition(FsAt(partition_start_offset),
                                      partition_start_offset, mac_info)
                l == [log EXCEPT !.probes = @ \cup Probes(a, b, partition_start_offset)]
            IN
            IF "META" \in part.flags /\ part.desc = "GPT Header"
            THEN /\ scan' = [next EXCEPT
                               !.gpt_header_offset = block_size * part.start,
                               !.gpt_partitions_offset =
                                   block_size * part.start + block_size]
                 /\ UNCHANGED <<pc, found_macos, img, mac_info, caller, cur, log>>
            ELSE IF "ALLOC" \notin part.flags
            THEN /\ scan' = next
                 /\ UNCHANGED <<pc, found_macos, img, mac_info, caller, cur, log>>
            ELSE IF SkipDesc(part.desc)
            THEN /\ scan' = next
                 /\ UNCHANGED <<pc, found_macos, img, mac_info, caller, cur, log>>
            ELSE /\ img' = ImgUsed
                 /\ CASE a = "raise" \/ (a = "true" /\ b = "raise") ->
                           /\ pc' = "plugins"
                           /\ log' = [l EXCEPT !.errPartitions = TRUE]
                           /\ UNCHANGED <<scan, found_macos, mac_info, caller, cur>>
                      [] a = "true" /\ b = "true" ->
                           /\ pc' = "orch_init"
                           /\ caller' = "scan"
                           /\ cur' = [container_start_offset |-> partition_start_offset,
                                      container_uuid |->
                                          GetApfsContainerUuid(partition_start_offset)]
                           /\ log' = l
                           /\ UNCHANGED <<scan, found_macos, mac_info>>
                      [] a = "true" /\ b = "false" ->
                           /\ scan' = next
                           /\ log' = l
                           /\ UNCHANGED <<pc, found_macos, mac_info, caller, cur>>
                      [] OTHER ->
                           /\ mac_info' = m.mi
                           /\ log' = [l EXCEPT !.validated = @ \cup m.seen,
                                                !.kernel = @ \cup m.kern]
                           /\ IF m.ok
                              THEN /\ pc' = "plugins"
                                   /\ found_macos' = TRUE
                                   /\ UNCHANGED scan
                              ELSE /\ scan' = next
                                   /\ UNCHANGED <<pc, found_macos>>
                           /\ UNCHANGED <<caller, cur>>
    /\ UNCHANGED <<whole, table, files, inv, handles,
                   plugins_run, prev, selection,
                   export_log_sqlite>>

----------------------------------------------------------------------------
(* FindMacOsPartitionInApfsContainer *)

Container == ContAt(cur.container_start_offset)
Uuid == cur.container_uuid

OpenHandle(u) == [uuid |-> u, open |-> TRUE, closes |-> 0]
ClosedHandle(u) == [uuid |-> u, open |-> FALSE, closes |-> 1]
CloseDb(hs, h) == [hs EXCEPT ![h] = [@ EXCEPT !.open = FALSE, !.closes = @ + 1]]

\* where the orchestrator's return value goes: line 638, or lines 392 and 646
ReturnPc == IF caller = "whole" THEN "vol_info" ELSE "plugins"
Returned(ok) == [inv EXCEPT !.result = IF ok THEN "true" ELSE "false"]
ReturnLog(l, ok) ==
    IF caller = "whole"
    THEN [l EXCEPT !.wholeResult = IF ok THEN "true" ELSE "false"]
    ELSE l

\* lines 285-304: a new ApfsMacInfo replaces the global context; the role loop
OrchInit ==
    /\ pc = "orch_init"
    /\ img' = ImgUsed
    /\ mac_info' = ClassifyVolumes(ApfsMacInfo(mac_info, cur.container_start_offset),
                                   Container.vols)
    /\ inv' = [uuid |-> Uuid, entry |-> NoFile, judged |-> "pending",
               result |-> "pending", cont |-> Container]
    /\ pc' = "orch_cache"
    /\ UNCHANGED <<whole, table, files, caller, cur, found_macos,
                   scan, handles, log, plugins_run, prev, selection,
                   export_log_sqlite>>

\* lines 309-313 and 324: what is done with the file at apfs_sqlite_path
CacheDecisionEitherCheck(f, vols) ==
    IF ~f.exists THEN "absent"
    ELSE IF f.corrupt THEN "error"
    ELSE IF CheckVerInfo(f) \/ CheckVolInfoAndGetVolEncKey(f, vols)
         THEN "reuse" ELSE "rebuild"
CacheDecisionNeverReuse(f, vols) ==
    IF ~f.exists THEN "absent"
    ELSE IF f.corrupt THEN "error"
    ELSE "rebuild"
CacheDecision(f, vols) ==
    IF ~f.exists THEN "absent"
    ELSE IF f.corrupt THEN "error"
    ELSE IF CheckVerInfo(f) /\ CheckVolInfoAndGetVolEncKey(f, vols)
         THEN "reuse" ELSE "rebuild"

\* lines 317-322: the dbo assignments of the reused cache; assigning .dbo on a
\* volume field that is None raises AttributeError
LinkExistingDb(mi) ==
    IF mi.apfs_sys_volume = NoVol THEN "plain"
    ELSE IF \/ mi.apfs_data_volume = NoVol
            \/ mi.apfs_preboot_volume = NoVol
            \/ mi.apfs_update_volume = NoVol
         THEN "raise"
         ELSE "combined"

\* mac_info.UseCombinedVolume() / CreateCombinedVolume(): the combined view
\* becomes the active filesystem
UseCombinedVolume(mi) ==
    [mi EXCEPT !.macos_FS = CombinedFS(mi.macos_partition_start_offset,
                                       mi.apfs_sys_volume, mi.apfs_data_volume)]

\* the file found at apfs_sqlite_path, k being what earlier use left there
FoundFile(k) ==
    IF files[Uuid] = UnknownFile THEN InitFile(k, Container) ELSE files[Uuid]

\* lines 305-328 (and 365-368 for what is raised there)
OrchCache ==
    /\ pc = "orch_cache"
    /\ \E k \in IF files[Uuid] = UnknownFile THEN InitFileKinds ELSE {"known"} :
       LET f == FoundFile(k)
           d == CacheDecision(f, Container.vols)
           h == Len(handles) + 1
           mi == [mac_info EXCEPT !.apfs_db = h]
           seen == [inv EXCEPT !.entry = f]
       IN
         CASE d = "absent" ->
                /\ pc' = "orch_create"
                /\ files' = [files EXCEPT ![Uuid] = f]
                /\ inv' = [seen EXCEPT !.judged = "absent"]
                /\ log' = [log EXCEPT !.judged = "absent"]
                /\ UNCHANGED <<handles, mac_info, found_macos>>
           [] d = "error" ->
                /\ pc' = ReturnPc
                /\ files' = [files EXCEPT ![Uuid] = f]
                /\ handles' = Append(handles, OpenHandle(Uuid))
                /\ inv' = [seen EXCEPT !.judged = "error", !.result = "false"]
                /\ found_macos' = FALSE
                /\ log' = ReturnLog([log EXCEPT !.errSqlite = TRUE,
                                                !.judged = "error"], FALSE)
                /\ UNCHANGED mac_info
           [] d = "reuse" ->
                /\ handles' = Append(handles, OpenHandle(Uuid))
                /\ files' = [files EXCEPT ![Uuid] = f]
                /\ IF LinkExistingDb(mi) = "raise"
                   THEN /\ pc' = ReturnPc
                        /\ mac_info' = mi
                        /\ inv' = [seen EXCEPT !.judged = "valid", !.result = "false"]
                        /\ found_macos' = FALSE
                        /\ log' = ReturnLog([log EXCEPT !.errSqlite = TRUE,
                                                        !.judged = "valid"], FALSE)
                   ELSE /\ pc' = "orch_validate"
                        /\ mac_info' = IF LinkExistingDb(mi) = "combined"
                                       THEN UseCombinedVolume(mi) ELSE mi
                        /\ inv' = [seen EXCEPT !.judged = "valid"]
                        /\ log' = [log EXCEPT !.judged = "valid"]
                        /\ UNCHANGED found_macos
           [] OTHER ->
                /\ pc' = "orch_create"
                /\ handles' = Append(handles, ClosedHandle(Uuid))
                /\ files' = [files EXCEPT ![Uuid] = NoFile]
                /\ inv' = [seen EXCEPT !.judged = "invalid"]
                /\ log' = [log EXCEPT !.judged = "invalid"]
                /\ UNCHANGED <<mac_info, found_macos>>
    /\ UNCHANGED <<whole, table, caller, cur, scan, img,
                   plugins_run, prev, selection,
                   export_log_sqlite>>

\* lines 329-332: SqliteWriter.CreateSqliteDb and OpenSqliteDb
OrchCreate ==
    /\ pc = "orch_create"
    /\ files' = [files EXCEPT ![Uuid] = NewFile(1)]
    /\ handles' = Append(handles, OpenHandle(Uuid))
    /\ mac_info' = [mac_info EXCEPT !.apfs_db = Len(handles) + 1]
    /\ pc' = "orch_read"
    /\ UNCHANGED <<whole, table, caller, cur, inv, found_macos, scan, img,
                   log, plugins_run, prev, selection,
                   export_log_sqlite>>

\* mac_info.ReadApfsVolumes(): reading the volumes of an encrypted container
\* without a credential fails
ReadApfsVolumesAlwaysOk(cont, password) == "ok"
ReadApfsVolumes(cont, password) ==
    IF cont.enc /\ ~password THEN "raise" ELSE "ok"

\* lines 344-346: log.exception('Error while reading APFS volumes')
BuildErrorSilent(l) == l
BuildError(l) == [l EXCEPT !.errReadVols = TRUE]

\* lines 333-335 (and 344-346)
OrchRead ==
    /\ pc = "orch_read"
    /\ img' = ImgUsed
    /\ IF ReadApfsVolumes(Container, mac_info.password) = "raise"
       THEN /\ pc' = ReturnPc
            /\ inv' = Returned(FALSE)
            /\ found_macos' = FALSE
            /\ log' = ReturnLog(BuildError([log EXCEPT !.readVols = TRUE]), FALSE)
       ELSE /\ pc' = "orch_write"
            /\ log' = [log EXCEPT !.readVols = TRUE]
            /\ UNCHANGED <<inv, found_macos>>
    /\ UNCHANGED <<whole, table, files, caller, cur, mac_info,
                   scan, handles, plugins_run, prev, selection,
                   export_log_sqlite>>

\* lines 336-346: WriteVolInfo, the dbo assignments, CreateCombinedVolume,
\* WriteVersionInfo
OrchWrite ==
    /\ pc = "orch_write"
    /\ LET withVols == [files EXCEPT ![Uuid].vols = VolInfo(Container.vols)]
           l == [log EXCEPT !.wroteVolInfo = TRUE]
       IN
         IF mac_info.apfs_sys_volume # NoVol /\ mac_info.apfs_data_volume = NoVol
         THEN /\ files' = withVols
              /\ pc' = ReturnPc
              /\ inv' = Returned(FALSE)
              /\ found_macos' = FALSE
              /\ log' = ReturnLog(BuildError(l), FALSE)
              /\ UNCHANGED mac_info
         ELSE IF mac_info.apfs_sys_volume # NoVol /\ ~Container.combine
         THEN /\ files' = withVols
              /\ pc' = ReturnPc
              /\ inv' = Returned(FALSE)
              /\ found_macos' = FALSE
              /\ log' = ReturnLog(l, FALSE)
              /\ UNCHANGED mac_info
         ELSE /\ files' = [withVols EXCEPT ![Uuid].ver = "ok"]
              /\ pc' = "orch_validate"
              /\ mac_info' = IF mac_info.apfs_sys_volume # NoVol
                             THEN UseCombinedVolume(mac_info) ELSE mac_info
              /\ log' = [l EXCEPT !.wroteVer = TRUE]
              /\ UNCHANGED <<inv, found_macos>>
    /\ UNCHANGED <<whole, table, caller, cur, scan, img, handles,
                   plugins_run, prev, selection,
                   export_log_sqlite>>

\* lines 356-362: the first volume whose root passes the validator
FirstMacOsVolumeHeadOnly(mi, vols, seen) ==
    IF vols = <<>> THEN Ret(FALSE, mi, seen)
    ELSE FindMacOsFiles([mi EXCEPT !.macos_FS =
                            VolFS(mi.macos_partition_start_offset, Head(vols))])
RECURSIVE FirstMacOsVolume(_, _, _)
FirstMacOsVolume(mi, vols, seen) ==
    IF vols = <<>> THEN Ret(FALSE, mi, seen)
    ELSE LET r == FindMacOsFiles([mi EXCEPT !.macos_FS =
                                     VolFS(mi.macos_partition_start_offset, Head(vols))]) IN
         IF r.ok THEN [Ret(TRUE, r.mi, seen \cup r.seen) EXCEPT !.kern = r.kern]
         ELSE FirstMacOsVolume(r.mi, Tail(vols), seen \cup r.seen)

\* lines 349-364: what the orchestrator answers once the cache is in place;
\* err: 'Found system volume, but no Data volume!' was logged
SearchContainerSystemOnly(mi, vols) ==
    LET r == FindMacOsFiles([mi EXCEPT !.macos_FS =
                 VolFS(mi.macos_partition_start_offset, mi.apfs_sys_volume)]) IN
    [ok |-> r.ok, mi |-> r.mi, seen |-> r.seen, kern |-> r.kern, err |-> FALSE]
SearchContainer(mi, vols) ==
    IF mi.apfs_sys_volume # NoVol
    THEN IF mi.apfs_data_volume = NoVol
         THEN [ok |-> FALSE, mi |-> mi, seen |-> {}, kern |-> {}, err |-> TRUE]
         ELSE LET r == FindMacOsFiles(mi) IN
              [ok |-> r.ok, mi |-> r.mi, seen |-> r.seen, kern |-> r.kern,
               err |-> FALSE]
    ELSE LET r == FirstMacOsVolume(mi, vols, {}) IN
         IF r.ok THEN [ok |-> TRUE, mi |-> r.mi, seen |-> r.seen, kern |-> r.kern,
                       err |-> FALSE]
         ELSE [ok |-> FALSE, mi |-> [r.mi EXCEPT !.macos_FS = NoFS],
               seen |-> r.seen, kern |-> {}, err |-> FALSE]

\* lines 347-364
OrchValidate ==
    /\ pc = "orch_validate"
    /\ LET r == SearchContainer(mac_info, Container.vols) IN
         /\ mac_info' = r.mi
         /\ found_macos' = r.ok
         /\ inv' = Returned(r.ok)
         /\ log' = ReturnLog([log EXCEPT !.validated = @ \cup r.seen,
                                         !.kernel = @ \cup r.kern,
                                         !.errNoData = @ \/ r.err], r.ok)
    /\ pc' = ReturnPc
    /\ UNCHANGED <<whole, table, files, caller, cur, scan, img,
                   handles, plugins_run, prev, selection,
                   export_log_sqlite>>

----------------------------------------------------------------------------
(* Plugins, final cleanup, and the next run *)

\* the plugins ImportPlugins found, by __Plugin_Name
Plugins == <<"IDEVICEBACKUPS", "SPOTLIGHT", "UNIFIEDLOGS", "WIFI">>

\* lines 442-447
plugin_name_list == <<"ALL", "FAST">> \o Plugins

\* lines 47-53
IsItemPresentInList(collection, item) ==
    \E i \in 1..Len(collection) : collection[i] = item

\* list.remove(item): the first occurrence goes
RECURSIVE ListRemove(_, _)
ListRemove(collection, item) ==
    IF collection = <<>> THEN <<>>
    ELSE IF Head(collection) = item THEN Tail(collection)
    ELSE <<Head(collection)>> \o ListRemove(Tail(collection), item)

\* x.upper(), plugin_name.endswith('-') and plugin_name[:-1] on the names
\* the model types on the command line
UpperName(x) ==
    CASE x = "all" -> "ALL"
      [] x = "fast" -> "FAST"
      [] x = "wifi-" -> "WIFI-"
      [] OTHER -> x
EndsWithDash(plugin_name) ==
    plugin_name \in {"ALL-", "FAST-", "WIFI-", "WIFI--", "SPOTLIGHT-", "UNIFIEDLOGS-"}
DropLast(plugin_name) ==
    CASE plugin_name = "ALL-" -> "ALL"
      [] plugin_name = "FAST-" -> "FAST"
      [] plugin_name = "WIFI-" -> "WIFI"
      [] plugin_name = "WIFI--" -> "WIFI-"
      [] plugin_name = "SPOTLIGHT-" -> "SPOTLIGHT"
      [] OTHER -> "UNIFIEDLOGS"

\* what the plugin selection has so far
Sel(to_run, not_to_run, exit) ==
    [to_run |-> to_run, not_to_run |-> not_to_run, exit |-> exit]

\* lines 509-515: names ending in '-' go to plugins_not_to_run
RECURSIVE SplitArgs(_, _)
SplitArgs(names, sel) ==
    IF names = <<>> THEN sel
    ELSE LET plugin_name == UpperName(Head(names)) IN
         SplitArgs(Tail(names),
                   IF EndsWithDash(plugin_name)
                   THEN Sel(sel.to_run, Append(sel.not_to_run, DropLast(plugin_name)), FALSE)
                   ELSE Sel(Append(sel.to_run, plugin_name), sel.not_to_run, FALSE))

\* CheckUserEnteredPluginNames(names, plugins): every name is a plugin's
CheckUserEnteredPluginNames(names) ==
    \A i \in 1..Len(names) : IsItemPresentInList(Plugins, names[i])

\* line 526: what FAST leaves out
FastExcluded == <<"IDEVICEBACKUPS", "SPOTLIGHT", "UNIFIEDLOGS">>

\* lines 517-531
ApplyAllFast(sel) ==
    IF IsItemPresentInList(sel.to_run, "ALL")
    THEN Sel(ListRemove(ListRemove(plugin_name_list, "ALL"), "FAST"),
             sel.not_to_run, FALSE)
    ELSE IF IsItemPresentInList(sel.to_run, "FAST")
    THEN Sel(ListRemove(ListRemove(plugin_name_list, "ALL"), "FAST"),
             sel.not_to_run \o FastExcluded, FALSE)
    ELSE Sel(sel.to_run, sel.not_to_run,
             ~CheckUserEnteredPluginNames(sel.to_run \o sel.not_to_run))

\* lines 533-535
RemoveDisabledNone(to_run, not_to_run) == to_run
RECURSIVE RemoveDisabled(_, _)
RemoveDisabled(to_run, not_to_run) ==
    IF not_to_run = <<>> THEN to_run
    ELSE RemoveDisabled(IF IsItemPresentInList(to_run, Head(not_to_run))
                        THEN ListRemove(to_run, Head(not_to_run))
                        ELSE to_run,
                        Tail(not_to_run))

\* lines 509-535 as a whole
SelectPlugins(names) ==
    LET sel == ApplyAllFast(SplitArgs(names, Sel(<<>>, <<>>, FALSE))) IN
    Sel(RemoveDisabled(sel.to_run, sel.not_to_run), sel.not_to_run, sel.exit)

\* lines 655-656: the plugins the loop starts, in the order of the plugin list
RECURSIVE PluginsToStart(_, _)
PluginsToStart(plugins, to_run) ==
    IF plugins = <<>> THEN <<>>
    ELSE (IF IsItemPresentInList(to_run, Head(plugins)) THEN <<Head(plugins)>> ELSE <<>>)
         \o PluginsToStart(Tail(plugins), to_run)

\* the command lines of the runs that go through discovery
RunArgs == {<<"ALL">>, <<"FAST">>}

\* line 652: "if found_macos:" guards the plugin loop
PluginsAllowedAlways(found) == TRUE
PluginsAllowed(found) == found

\* lines 652-654 and 663-664
StartPlugins ==
    /\ pc = "plugins"
    /\ IF PluginsAllowed(found_macos)
       THEN /\ pc' = "plugin_loop"
            /\ mac_info' = IF ~mac_info.is_apfs
                           THEN [mac_info EXCEPT
                                   !.hfs_native = mac_info.macos_partition_start_offset]
                           ELSE mac_info
            /\ \E names \in RunArgs :
                  /\ args_plugin' = names
                  /\ plugins_to_run' = SelectPlugins(names).to_run
                  /\ plugins_not_to_run' = SelectPlugins(names).not_to_run
            /\ UNCHANGED log
       ELSE /\ pc' = "cleanup"
            /\ log' = [log EXCEPT !.warned = TRUE]
            /\ UNCHANGED <<mac_info, selection>>
    /\ inv' = NoInv
    /\ UNCHANGED <<whole, table, files, caller, cur,
                   found_macos, scan, img, handles, plugins_run, prev,
                   export_log_sqlite>>

\* the plugins whose Plugin_Start can raise an exception on the evidence
RaisingPlugins == {"SPOTLIGHT"}

\* lines 659-662: plugin.Plugin_Start(mac_info) inside try / except Exception;
\* raised: the plugin raised an exception, which log.exception records
PluginStart(l, name, raised) ==
    IF raised THEN [l EXCEPT !.pluginErrors = @ \cup {name}] ELSE l

\* lines 655-662: one iteration of the plugin loop, or its end
RunPluginStopsOnException ==
    /\ pc = "plugin_loop"
    /\ IF Len(plugins_run) < Len(PluginsToStart(Plugins, plugins_to_run))
       THEN LET name == PluginsToStart(Plugins, plugins_to_run)[Len(plugins_run) + 1] IN
            /\ plugins_run' = Append(plugins_run, name)
            /\ \E raised \in (IF name \in RaisingPlugins THEN BOOLEAN ELSE {FALSE}) :
                  /\ log' = PluginStart(log, name, raised)
                  /\ pc' = IF raised THEN "cleanup" ELSE pc
       ELSE /\ pc' = "cleanup"
            /\ UNCHANGED <<plugins_run, log>>
    /\ UNCHANGED <<whole, table, files, caller, cur, inv, mac_info,
                   found_macos, scan, img, handles, prev, selection,
                   export_log_sqlite>>
RunPlugin ==
    /\ pc = "plugin_loop"
    /\ IF Len(plugins_run) < Len(PluginsToStart(Plugins, plugins_to_run))
       THEN LET name == PluginsToStart(Plugins, plugins_to_run)[Len(plugins_run) + 1] IN
            /\ plugins_run' = Append(plugins_run, name)
            /\ \E raised \in (IF name \in RaisingPlugins THEN BOOLEAN ELSE {FALSE}) :
                  log' = PluginStart(log, name, raised)
            /\ UNCHANGED pc
       ELSE /\ pc' = "cleanup"
            /\ UNCHANGED <<plugins_run, log>>
    /\ UNCHANGED <<whole, table, files, caller, cur, inv, mac_info,
                   found_macos, scan, img, handles, prev, selection,
                   export_log_sqlite>>

\* lines 669-676
FinalCleanup ==
    /\ pc = "cleanup"
    /\ img' = [img EXCEPT !.open = FALSE, !.closes = @ + 1]
    /\ handles' = IF mac_info.is_apfs /\ mac_info.apfs_db # 0
                  THEN CloseDb(handles, mac_info.apfs_db)
                  ELSE handles
    /\ pc' = "done"
    /\ export_log_sqlite' = IF export_log_sqlite.open
                            THEN [open |-> FALSE, closes |-> export_log_sqlite.closes + 1]
                            ELSE export_log_sqlite
    /\ UNCHANGED <<whole, table, files, caller, cur, inv, mac_info,
                   found_macos, scan, log, plugins_run, prev, selection>>

Ended == pc \in {"done", "exited", "crashed"}

\* the tool is run again on the same image with the same output folder
StartRun ==
    /\ Ended
    /\ prev' = [found |-> pc = "done" /\ found_macos, wholeResult |-> log.wholeResult]
    /\ pc' = "password"
    /\ caller' = "none"
    /\ cur' = NoCur
    /\ inv' = NoInv
    /\ mac_info' = MacInfo
    /\ found_macos' = FALSE
    /\ scan' = NoScan
    /\ img' = OpenImg
    /\ handles' = <<>>
    /\ log' = NoLog
    /\ plugins_run' = <<>>
    /\ args_plugin' = <<>>
    /\ plugins_to_run' = <<>>
    /\ plugins_not_to_run' = <<>>
    /\ export_log_sqlite' = OpenExportLog
    /\ files' = [u \in UUIDs |-> [files[u] EXCEPT !.gen = 0]]
    /\ UNCHANGED <<whole, table>>

Next ==
    \/ ReadPassword
    \/ WholeImageApfsCheck
    \/ WholeImageHfsCheck
    \/ ReadPartitionTable
    \/ FindMacOsPartition
    \/ OrchInit
    \/ OrchCache
    \/ OrchCreate
    \/ OrchRead
    \/ OrchWrite
    \/ OrchValidate
    \/ StartPlugins
    \/ RunPlugin
    \/ FinalCleanup
    \/ StartRun

Spec == Init /\ [][Next]_vars

----------------------------------------------------------------------------
(* Vocabulary of the properties *)

HasRole(cont, role) == \E i \in 1..Len(cont.vols) : cont.vols[i].role = role
Roles(cont) == [i \in 1..Len(cont.vols) |-> cont.vols[i].role]
SystemWithoutData(cont) == HasRole(cont, "SYSTEM") /\ ~HasRole(cont, "DATA")

Invoked == inv.uuid # 0
Judged == Invoked /\ inv.judged # "pending"
OrchReturned == Invoked /\ inv.result # "pending"

\* byte offsets at which the run may make the APFS signature check
ApfsCheckOffsets == {0} \cup {block_size * PartStart(i) : i \in 1..Len(table.parts)}

\* a signature at offset 0 that sends the controller to the orchestrator or
\* to the HFS validator
WholeSignature ==
    \/ whole.magic = "NXSB"
    \/ whole.magic = "zero" /\ whole.hfs \in {"H+", "HX"}

AllClosed == \A h \in 1..Len(handles) : ~handles[h].open /\ handles[h].closes = 1

----------------------------------------------------------------------------
(* C1: for every image and offset the APFS signature check answers true    *)
(* exactly when the 4 bytes at off + 0x20 are 'NXSB' and false otherwise,  *)
(* a failed read included: it never raises.  Stated for the offsets the    *)
(* run checks, once the check at offset 0 has been made.                   *)
C1_ApfsCheckNeverRaises ==
    pc \notin {"password", "whole_apfs"} =>
        \A off \in ApfsCheckOffsets :
            IsApfsContainer(off) =
                (IF ImgRead(off + ApfsMagicOffset, 4) = NXSB THEN "true" ELSE "false")

(* C2: a container with a SYSTEM volume and no DATA volume makes the       *)
(* orchestrator return failure, on the cache-reused and on the rebuilt     *)
(* path, and the validator is never run against a filesystem of it.        *)
C2_SystemNeedsData ==
    /\ (Invoked /\ SystemWithoutData(inv.cont)) => inv.result \in {"pending", "false"}
    /\ \A fs \in log.validated :
          fs.kind \in {"vol", "combined"} => ~SystemWithoutData(ContAt(fs.off))

C2_Witness ==
    /\ OrchReturned
    /\ SystemWithoutData(inv.cont)
    /\ inv.judged = "valid"
    /\ inv.result = "false"

(* C3: scenario 2.  A raw image (no partition table) with an APFS          *)
(* signature at offset 0 and exactly one SYSTEM and one DATA volume, run   *)
(* again after a run that found macOS in that container: the run ends      *)
(* FOUND, without ReadApfsVolumes and without the volume-info write.       *)
C3_Scenario2 ==
    /\ whole.magic = "NXSB"
    /\ Roles(whole.cont) = <<"SYSTEM", "DATA">>
    /\ prev.found /\ prev.wholeResult = "true"
    /\ table.st = "fail"

C3_SecondRunFound ==
    (C3_Scenario2 /\ pc = "done") =>
        found_macos /\ ~log.readVols /\ ~log.wroteVolInfo

(* C4: cache round trip.  A cache file that an earlier orchestrator        *)
(* invocation built completely is judged valid by a later invocation on    *)
(* the same container; the file is neither deleted nor recreated and its   *)
(* records are left as written.                                            *)
C4_BuiltEarlier == Judged /\ inv.entry.built /\ inv.entry.ver = "ok"

C4_CacheRoundTrip ==
    C4_BuiltEarlier => inv.judged = "valid" /\ files[inv.uuid] = inv.entry

C4_Witness == C4_BuiltEarlier /\ inv.result = "true" /\ caller = "whole"

(* C5: cache staleness.                                                    *)
Stale(f, cont) ==
    f.exists /\ ~f.corrupt /\ (f.ver # "ok" \/ f.vols # VolInfo(cont.vols))
Complete(f, cont) ==
    f.exists /\ ~f.corrupt /\ f.ver = "ok" /\ f.vols = VolInfo(cont.vols)
C5_StaleEntry == Judged /\ Stale(inv.entry, inv.cont)

\* the volumes can be read and, with a SYSTEM volume, there is a DATA volume
\* and the combined volume can be created
CanBuild(cont, password) ==
    /\ ~(cont.enc /\ ~password)
    /\ HasRole(cont, "SYSTEM") => (HasRole(cont, "DATA") /\ cont.combine)

(* C5 as stated: a stale cache file (schema version or recorded volumes    *)
(* not matching) is judged invalid, closed and deleted before any new      *)
(* record is written, and a complete cache (volume info and version info)  *)
(* is rebuilt from the live container, with no record of the stale one.    *)
C5_StaleRebuiltComplete ==
    (C5_StaleEntry /\ OrchReturned) =>
        /\ inv.judged = "invalid"
        /\ files[inv.uuid].gen = 1
        /\ Complete(files[inv.uuid], inv.cont)

(* C5 as amended: a stale cache file is judged invalid, closed and deleted *)
(* before any new record is written and a new file is built from the live  *)
(* container, so no record of the stale one survives; the new file is      *)
(* complete when the orchestrator returns exactly if the volumes could be  *)
(* read and, for a container with a SYSTEM volume, it has a DATA volume    *)
(* and the combined volume was created; otherwise it has no version info.  *)
C5_StaleRebuilt ==
    C5_StaleEntry =>
        /\ inv.judged = "invalid"
        /\ \E h \in 1..Len(handles) : handles[h] = ClosedHandle(inv.uuid)
        /\ pc = "orch_create" => files[inv.uuid] = NoFile
        /\ pc # "orch_create" =>
              /\ files[inv.uuid].exists /\ files[inv.uuid].gen = 1
              /\ files[inv.uuid].vols \in {<<>>, VolInfo(inv.cont.vols)}
              /\ files[inv.uuid].ver \in {"none", "ok"}
        /\ OrchReturned =>
              (Complete(files[inv.uuid], inv.cont)
                  <=> CanBuild(inv.cont, mac_info.password))
        /\ (OrchReturned /\ ~CanBuild(inv.cont, mac_info.password)) =>
              files[inv.uuid].ver = "none" /\ inv.result = "false"

C5_Witness ==
    /\ C5_StaleEntry /\ OrchReturned
    /\ inv.entry.ver = "ok"
    /\ Complete(files[inv.uuid], inv.cont)
    /\ files[inv.uuid].gen = 1

----------------------------------------------------------------------------
\* the i-th partition entry is allocated, is not skipped by its description,
\* and holds an HFS+ filesystem with the version-descriptor file
ValidMacOsPartition(i) ==
    /\ "ALLOC" \in table.parts[i].flags
    /\ Upper(table.parts[i].desc) \notin {"EFI SYSTEM PARTITION", "APPLE_PARTITION_MAP"}
    /\ table.parts[i].magic = "zero"
    /\ table.parts[i].fs = FsHfsVer

(* C6: in the partition scan, after an APFS container partition has        *)
(* failed, the scan goes on with the remaining partitions: when a later    *)
(* partition holds a valid macOS installation the run ends FOUND.          *)
C6_ScanContinuesAfterApfsFailure ==
    ( /\ pc = "done"
      /\ log.scanned
      /\ caller = "scan"
      /\ log.errReadVols \/ log.errNoData \/ log.validated # {}
      /\ \E j \in 1..Len(table.parts) :
            j > PartAt(cur.container_start_offset) /\ ValidMacOsPartition(j) )
    => found_macos

(* C7 as stated: with an APFS signature, or else an HFS signature, at      *)
(* offset 0 the PARTITION_SCAN state is never entered, whatever the        *)
(* outcome of the orchestrator / validator.                                *)
C7_NoScanAfterWholeSignature ==
    WholeSignature => (~log.scanned /\ ~log.errPartitions /\ pc # "scan")

(* C7 as amended: with an APFS signature, or else an HFS signature, at     *)
(* offset 0 the controller delegates to the orchestrator / validator; when *)
(* that confirms macOS the run goes on to FOUND and the partition table is *)
(* never read; when it fails the controller falls through to the partition *)
(* table, and the scan is entered only after such a failure.               *)
C7_ScanOnlyAfterWholeFailure ==
    WholeSignature =>
        /\ log.wholeResult = "true" =>
              (~log.scanned /\ ~log.errPartitions /\ pc # "scan")
        /\ (log.scanned \/ log.errPartitions) => log.wholeResult = "false"
        /\ (log.wholeResult = "false" /\ pc \in {"plugins", "cleanup", "done"}) =>
              (log.scanned \/ log.errPartitions)
        /\ pc \in {"plugin_loop", "cleanup", "done"} => log.wholeResult # "none"

C7_Witness ==
    /\ WholeSignature
    /\ log.wholeResult = "false"
    /\ log.scanned
    /\ pc = "done"

(* C8: on every exit path after the image was opened (normal completion,   *)
(* NOT_FOUND, Exit() on a password file that cannot be read, an error of   *)
(* the cascade) the image stream is closed exactly once before the process *)
(* ends, and nothing is done on it after the close.                        *)
C8_ImageClosedOnce ==
    /\ img.closes <= 1
    /\ ~img.misuse
    /\ Ended => (img.closes = 1 /\ ~img.open)

(* C9: a rejected candidate leaves nothing in the context: after FOUND the *)
(* is_apfs flag, the active filesystem, the partition start offset and the *)
(* system / data volume fields describe the successful candidate only, and *)
(* after NOT_FOUND the active filesystem is unset.                         *)
C9_ContextDescribesOnlySuccess ==
    /\ (pc \in {"plugin_loop", "cleanup", "done"} /\ found_macos) =>
          /\ mac_info.macos_partition_start_offset = mac_info.macos_FS.off
          /\ mac_info.macos_FS.kind = "hfs" =>
                /\ ~mac_info.is_apfs
                /\ mac_info.apfs_sys_volume = NoVol
                /\ mac_info.apfs_data_volume = NoVol
          /\ mac_info.macos_FS.kind \in {"vol", "combined"} => mac_info.is_apfs
    /\ (pc \in {"cleanup", "done"} /\ ~found_macos) => mac_info.macos_FS = NoFS

\* the i-th partition entry is an encrypted APFS container that the scan
\* hands to the orchestrator
EncryptedApfsPartition(i) ==
    /\ "ALLOC" \in table.parts[i].flags
    /\ table.parts[i].magic = "NXSB"
    /\ table.parts[i].guid = "apfs"
    /\ table.parts[i].cont.enc

\* an image without a signature at offset 0 whose partition table has one
\* allocated partition, an encrypted APFS container, read without credential
C10_Image ==
    /\ ~WholeSignature /\ whole.magic = "zero" /\ whole.hfs = "zero"
    /\ table.st = "ok" /\ table.hdr = 0
    /\ \E i \in 1..Len(table.parts) :
          /\ EncryptedApfsPartition(i)
          /\ \A j \in 1..Len(table.parts) : j # i => "ALLOC" \notin table.parts[j].flags
    /\ ~mac_info.password

\* what scenario 4 promises of a finished discovery
C10_Outcome ==
    /\ pc \in {"plugins", "plugin_loop", "cleanup", "done"} =>
          /\ log.readVols /\ log.errReadVols
          /\ log.validated = {}
          /\ ~found_macos
          /\ plugins_run = <<>>
          /\ pc # "plugin_loop"
    /\ pc \in {"cleanup", "done"} => log.warned
    /\ pc = "done" => (img.closes = 1 /\ ~img.open /\ AllClosed)

(* C10 as stated: scenario 4.  The only allocated partition is an          *)
(* encrypted APFS container and no credential is supplied: the failed      *)
(* volume read is logged as an error (the validator is not what rejects    *)
(* the candidate), the run ends NOT_FOUND with the warning, no plugin is   *)
(* started and the final cleanup closes the image and the cache.           *)
C10_EncryptedAlwaysReadError == C10_Image => C10_Outcome

(* C10 as amended: scenario 4 when the output folder holds no cache of the *)
(* container that is judged up to date (it is absent, or stale and         *)
(* deleted): the volumes are read, the read fails and is logged as an      *)
(* error, the validator never runs, the run ends NOT_FOUND with the        *)
(* warning, no plugin is started and the cleanup closes image and cache.   *)
C10_Scenario4 == C10_Image /\ log.judged \in {"absent", "invalid"}

C10_EncryptedOnlyPartition == C10_Scenario4 => C10_Outcome

C10_Witness == C10_Scenario4 /\ pc = "done" /\ log.warned /\ log.errReadVols

----------------------------------------------------------------------------
\* byte offset of the i-th partition of the table
PartOffset(i) == block_size * PartStart(i)

\* the checks the scan can make on a partition
ScanChecks == {"apfs", "boot", "orch", "macos"}

\* the i-th partition has one of the two skipped descriptions, in the letter
\* cases the tables of the model use
SkippedDescription(i) ==
    table.parts[i].desc \in {"EFI System Partition", "EFI SYSTEM PARTITION",
                             "Apple_partition_map", "APPLE_PARTITION_MAP"}

SkippedEntry(i) == SkippedDescription(i) \/ "ALLOC" \notin table.parts[i].flags

(* C11: in the partition scan an entry described as 'EFI System Partition' *)
(* or 'APPLE_PARTITION_MAP' (in any letter case), and any entry that is    *)
(* not flagged allocated, is never passed to the APFS signature check, the *)
(* type GUID check, the orchestrator, the HFS check or the validator.      *)
C11_SkippedEntriesNeverProbed ==
    \A i \in 1..Len(table.parts) :
        SkippedEntry(i) =>
            /\ \A c \in ScanChecks : <<c, PartOffset(i)>> \notin log.probes
            /\ \A fs \in log.validated : fs.off # PartOffset(i)
            /\ pc \in {"orch_init", "orch_cache", "orch_create", "orch_read",
                       "orch_write", "orch_validate"} =>
                  cur.container_start_offset # PartOffset(i)

C11_Witness ==
    /\ pc = "done" /\ log.scanned
    /\ \E i, k \in 1..Len(table.parts) :
          /\ i < k
          /\ SkippedDescription(i) /\ "ALLOC" \in table.parts[i].flags
          /\ <<"macos", PartOffset(k)>> \in log.probes

----------------------------------------------------------------------------
\* a plugin has been started, or the plugin loop has been entered
PluginsStarted == plugins_run # <<>> \/ pc = "plugin_loop"

(* C12: plugins are started only in runs that reached FOUND: every         *)
(* Plugin_Start call comes after a successful validator confirmation       *)
(* (FindMacOsFiles returned True on the filesystem that is now the active  *)
(* one and read the system information), and a run that ends NOT_FOUND     *)
(* never starts a plugin.                                                  *)
C12_PluginsOnlyAfterFound ==
    /\ PluginsStarted =>
          /\ found_macos
          /\ mac_info.sysinfo
          /\ mac_info.macos_FS \in log.validated
          /\ IsValidFilePath(mac_info, SystemVersionPlist)
          /\ ~log.warned
    /\ (pc \in {"cleanup", "done"} /\ ~found_macos) =>
          (plugins_run = <<>> /\ log.warned)
    /\ log.warned => plugins_run = <<>>

C12_Witness ==
    /\ pc = "done" /\ found_macos
    /\ plugins_run = Plugins
    /\ \E fs \in log.validated : ~fs.ver

----------------------------------------------------------------------------
\* the terminal states of discovery, as the run that ended shows them
ReachedFound == pc = "done" /\ found_macos /\ ~log.warned
ReachedNotFound == pc = "done" /\ ~found_macos /\ log.warned

(* C13: every run that has opened the image ends in exactly one of FOUND   *)
(* and NOT_FOUND, whatever the signature reads, the partition table read   *)
(* and the candidate checks do; NOT_FOUND is followed by the warning and   *)
(* the final cleanup, never by an abort.  Stated on the run that entered   *)
(* the discovery cascade: it never ends by an uncaught error, and when it  *)
(* has ended it is after the final cleanup with one of the two outcomes.   *)
C13_RunEndsFoundOrNotFound ==
    /\ pc # "crashed"
    /\ pc = "done" => (ReachedFound \/ ReachedNotFound)
    /\ ~(ReachedFound /\ ReachedNotFound)

----------------------------------------------------------------------------
\* pc values after the whole-image candidate has been answered
AfterWholeImage == pc \in {"vol_info", "plugins", "plugin_loop", "cleanup", "done"}

(* C14: scenario 1.  The image has the APFS signature at offset 0, its     *)
(* container holds one SYSTEM and one DATA volume, the output folder holds *)
(* no cache file and the version-descriptor file is visible through the    *)
(* combined view: the orchestrator builds the cache (volume info and       *)
(* version info), constructs the combined view, runs the validator against *)
(* the combined view only, and the run ends FOUND without reading the      *)
(* partition table or entering the partition scan.                         *)
C14_Scenario1 ==
    /\ whole.magic = "NXSB"
    /\ Roles(whole.cont) = <<"SYSTEM", "DATA">>
    /\ ~whole.cont.enc /\ whole.cont.combine
    /\ whole.cont.vols[1].ver
    /\ caller = "whole" /\ log.judged = "absent"

C14_CombinedView ==
    CombinedFS(0, whole.cont.vols[1], whole.cont.vols[2])

C14_FreshContainerImageFound ==
    (C14_Scenario1 /\ AfterWholeImage) =>
        /\ found_macos /\ log.wholeResult = "true"
        /\ log.readVols /\ log.wroteVolInfo /\ log.wroteVer
        /\ files[GetApfsContainerUuid(0)].gen = 1
        /\ Complete(files[GetApfsContainerUuid(0)], whole.cont)
        /\ log.validated = {C14_CombinedView}
        /\ mac_info.macos_FS = C14_CombinedView
        /\ mac_info.is_apfs
        /\ ~log.scanned /\ ~log.errPartitions /\ pc # "scan"
        /\ pc \in {"cleanup", "done"} => ~log.warned

C14_Witness == C14_Scenario1 /\ pc = "done" /\ found_macos /\ plugins_run # <<>>

----------------------------------------------------------------------------
(* C15: scenario 3.  The image has no APFS and no HFS signature at offset  *)
(* 0 and its GPT table holds one EFI System Partition followed by one      *)
(* allocated HFS+ partition whose root holds the version-descriptor file:  *)
(* the scan makes no check on the EFI entry, the run ends FOUND through    *)
(* the partition scan, and the context's active filesystem and partition   *)
(* start offset are those of the HFS+ partition, with is_apfs false.       *)
C15_Scenario3 ==
    /\ whole.magic = "zero" /\ whole.hfs = "zero"
    /\ table.st = "ok" /\ table.hdr # -1
    /\ Len(table.parts) = 2
    /\ table.parts[1].desc = "EFI System Partition"
    /\ "ALLOC" \in table.parts[1].flags
    /\ ValidMacOsPartition(2)

C15_HfsPartitionFound ==
    (C15_Scenario3 /\ pc \in {"plugins", "plugin_loop", "cleanup", "done"}) =>
        /\ found_macos /\ log.scanned /\ log.wholeResult = "none"
        /\ log.probes = {<<"apfs", PartOffset(2)>>, <<"macos", PartOffset(2)>>}
        /\ log.validated = {HfsFS(PartOffset(2), FsHfsVer)}
        /\ mac_info.macos_FS = HfsFS(PartOffset(2), FsHfsVer)
        /\ mac_info.macos_partition_start_offset = PartOffset(2)
        /\ mac_info.hfs_native = PartOffset(2)
        /\ ~mac_info.is_apfs /\ mac_info.cls = "MacInfo"
        /\ handles = <<>>
        /\ pc \in {"cleanup", "done"} => ~log.warned

C15_Witness ==
    /\ C15_Scenario3 /\ pc = "done" /\ found_macos
    /\ table.hdr = 0 /\ plugins_run = Plugins

----------------------------------------------------------------------------
(* The plugin selection on its own: the script from the parsed command     *)
(* line (line 509) to the plugin list it logs (line 537), for every        *)
(* command line of the bound below                                         *)

MaxArgs == 3       \* plugin names on a command line

\* the names typed: pseudo-names, plugins, lower case, disabled with '-',
\* and a name that is no plugin
ArgNames == {"ALL", "all", "FAST", "fast", "ALL-", "FAST-",
             "WIFI", "wifi-", "WIFI-", "WIFI--", "SPOTLIGHT", "SPOTLIGHT-",
             "UNIFIEDLOGS-", "IDEVICEBACKUPS", "NOSUCHPLUGIN"}

ArgLists == UNION {[1..n -> ArgNames] : n \in 1..MaxArgs}

InitSelection ==
    /\ args_plugin \in ArgLists
    /\ plugins_to_run = <<>>
    /\ plugins_not_to_run = <<>>
    /\ pc = "args"
    /\ whole = Whole("zero", "zero", NoFs, NoCont)
    /\ table = UnknownTable
    /\ files = [u \in UUIDs |-> UnknownFile]
    /\ caller = "none"
    /\ cur = NoCur
    /\ inv = NoInv
    /\ mac_info = MacInfo
    /\ found_macos = FALSE
    /\ scan = NoScan
    /\ img = [OpenImg EXCEPT !.open = FALSE]
    /\ handles = <<>>
    /\ log = NoLog
    /\ plugins_run = <<>>
    /\ prev = NoPrev
    /\ export_log_sqlite = NoExportLog

\* what the selection steps leave alone: the image is not open yet
Discovery == <<whole, table, files, caller, cur, inv, mac_info, found_macos,
               scan, img, handles, log, plugins_run, prev, export_log_sqlite>>

\* lines 509-515
SplitPluginArgs ==
    /\ pc = "args"
    /\ LET sel == SplitArgs(args_plugin, Sel(<<>>, <<>>, FALSE)) IN
         /\ plugins_to_run' = sel.to_run
         /\ plugins_not_to_run' = sel.not_to_run
    /\ pc' = "all_fast"
    /\ UNCHANGED <<args_plugin, Discovery>>

\* lines 517-531: Exit() on a name that is no plugin
CheckAllFast ==
    /\ pc = "all_fast"
    /\ LET sel == ApplyAllFast(Sel(plugins_to_run, plugins_not_to_run, FALSE)) IN
         /\ plugins_to_run' = sel.to_run
         /\ plugins_not_to_run' = sel.not_to_run
         /\ pc' = IF sel.exit THEN "exited" ELSE "disable"
    /\ UNCHANGED <<args_plugin, Discovery>>

\* lines 533-538
DropDisabled ==
    /\ pc = "disable"
    /\ plugins_to_run' = RemoveDisabled(plugins_to_run, plugins_not_to_run)
    /\ pc' = "selected"
    /\ UNCHANGED <<args_plugin, plugins_not_to_run, Discovery>>

SelectionNext ==
    \/ SplitPluginArgs
    \/ CheckAllFast
    \/ DropDisabled

SelectionSpec == InitSelection /\ [][SelectionNext]_vars

----------------------------------------------------------------------------
\* the names typed, in upper case
Typed == {UpperName(args_plugin[i]) : i \in 1..Len(args_plugin)}

AllTyped == "ALL" \in Typed
FastTyped == "FAST" \in Typed /\ ~AllTyped

PluginSet == {Plugins[i] : i \in 1..Len(Plugins)}

\* a plugin's name as typed to disable it
WithDash(p) ==
    CASE p = "WIFI" -> "WIFI-"
      [] p = "SPOTLIGHT" -> "SPOTLIGHT-"
      [] p = "UNIFIEDLOGS" -> "UNIFIEDLOGS-"
      [] OTHER -> "IDEVICEBACKUPS-"

\* the plugins typed with a trailing '-'
Disabled == {p \in PluginSet : WithDash(p) \in Typed}

\* the set of plugins the loop of line 655 starts
RunSet == LET l == PluginsToStart(Plugins, plugins_to_run) IN
          {l[i] : i \in 1..Len(l)}

(* C16: plugin selection as the help text documents it.  With FAST (and    *)
(* no ALL) the plugins run are all the available ones except               *)
(* IDEVICEBACKUPS, SPOTLIGHT and UNIFIEDLOGS; with ALL they are all the    *)
(* available ones; in both cases every plugin typed with a trailing '-' is *)
(* taken out, and ALL and FAST are never in the list of plugins to run.    *)
C16_SelectionAsDocumented ==
    pc = "selected" =>
        /\ AllTyped => RunSet = PluginSet \ Disabled
        /\ FastTyped =>
              RunSet = (PluginSet \ {"IDEVICEBACKUPS", "SPOTLIGHT", "UNIFIEDLOGS"})
                           \ Disabled
        /\ ~IsItemPresentInList(plugins_to_run, "ALL")
        /\ ~IsItemPresentInList(plugins_to_run, "FAST")

C16_Witness ==
    /\ pc = "selected"
    /\ args_plugin = <<"ALL", "UNIFIEDLOGS-", "WIFI-">>
    /\ RunSet = {"IDEVICEBACKUPS", "SPOTLIGHT"}

----------------------------------------------------------------------------
\* pc values after the partition scan has returned or was left by an error
AfterScan == pc \in {"plugins", "plugin_loop", "cleanup", "done"}

\* the i-th entry is one the scan evaluates
Candidate(i) == "ALLOC" \in table.parts[i].flags /\ ~SkippedDescription(i)

\* a signature check of the scan on the i-th partition met a read failure
SignatureReadFailed(i) ==
    /\ <<"apfs", PartOffset(i)>> \in log.probes
    /\ \/ ImgRead(PartOffset(i) + ApfsMagicOffset, 4) = ReadFail
       \/ /\ <<"boot", PartOffset(i)>> \in log.probes
          /\ ImgRead(scan.gpt_partitions_offset + GptEntrySize * PartSlot(i), 16)
                 = ReadFail

(* C17: a read failure in a signature check of the partition scan (APFS    *)
(* signature, type GUID of the GPT entry) counts as 'signature absent' for *)
(* that partition only: the scan is not aborted and the next allocated,    *)
(* non-skipped partition in table order is evaluated.                      *)
C17_ReadFailureDoesNotAbortScan ==
    \A i \in 1..Len(table.parts) :
        (log.scanned /\ AfterScan /\ SignatureReadFailed(i)) =>
            /\ ~log.errPartitions
            /\ \A j \in 1..Len(table.parts) :
                  ( /\ i < j /\ Candidate(j)
                    /\ \A k \in 1..Len(table.parts) : (i < k /\ k < j) => ~Candidate(k) )
                  => <<"apfs", PartOffset(j)>> \in log.probes

----------------------------------------------------------------------------
\* the scan has made its checks on the i-th partition
Evaluated(i) == <<"apfs", PartOffset(i)>> \in log.probes

\* the scan has returned (no error left it)
ScanReturned == log.scanned /\ AfterScan /\ ~log.errPartitions

(* C18: the partition scan evaluates the allocated, non-skipped entries    *)
(* strictly in table order and stops at the first one that yields a        *)
(* confirmed macOS installation: only allocated, non-skipped entries are   *)
(* evaluated, none is evaluated before an earlier one, the scan ends       *)
(* without a find only when every such entry was evaluated, no entry after *)
(* the confirmed one is evaluated, and the context describes the confirmed *)
(* entry.                                                                  *)
C18_ScanInOrderToFirstConfirmed ==
    ScanReturned =>
        /\ \A i, j \in 1..Len(table.parts) :
              (i < j /\ Candidate(i) /\ Evaluated(j)) => Evaluated(i)
        /\ \A i \in 1..Len(table.parts) : Evaluated(i) => Candidate(i)
        /\ ~found_macos => \A i \in 1..Len(table.parts) : Candidate(i) => Evaluated(i)
        /\ found_macos =>
              \E i \in 1..Len(table.parts) :
                  /\ Evaluated(i)
                  /\ \A j \in 1..Len(table.parts) : i < j => ~Evaluated(j)
                  /\ mac_info.macos_FS.off = PartOffset(i)
                  /\ mac_info.macos_partition_start_offset = PartOffset(i)
                  /\ mac_info.is_apfs = (table.parts[i].magic = "NXSB")

----------------------------------------------------------------------------
\* the scan has handed the i-th partition to the APFS orchestrator
Delegated(i) == <<"orch", PartOffset(i)>> \in log.probes

\* a cache file was created or opened in this run for a container found in a
\* partition
PartitionCacheTouched ==
    \E n \in 1..Len(handles) : handles[n].uuid = GetApfsContainerUuid(PartOffset(1))

\* the i-th partition of a GPT disk was evaluated, carries the container
\* signature, and the type GUID of its GPT entry is not the APFS one
GuidNotApfs(i) ==
    /\ table.st = "ok" /\ table.hdr = 0
    /\ Evaluated(i)
    /\ table.parts[i].magic = "NXSB"
    /\ GuidBytes(table.parts[i].guid) \notin {ApfsTypeGuid, ReadFail}

(* C19: in the partition scan a partition with the APFS container          *)
(* signature is handed to the orchestrator only if the type GUID of its    *)
(* GPT entry is the APFS partition type; when the GUID is another one, the *)
(* orchestrator is not invoked for it, no cache file is created or opened  *)
(* for it, and the scan goes on to the next entry.                         *)
C19_OnlyApfsTypedPartitionsDelegated ==
    \A i \in 1..Len(table.parts) :
        /\ Delegated(i) =>
              /\ table.parts[i].magic = "NXSB"
              /\ GuidBytes(table.parts[i].guid) = ApfsTypeGuid
        /\ GuidNotApfs(i) =>
              /\ ~Delegated(i)
              /\ PartitionCacheTouched =>
                    \E j \in 1..Len(table.parts) : j # i /\ Delegated(j)
              /\ AfterScan =>
                    \A j \in 1..Len(table.parts) :
                        ( /\ i < j /\ Candidate(j)
                          /\ \A k \in 1..Len(table.parts) :
                                (i < k /\ k < j) => ~Candidate(k) )
                        => Evaluated(j)

C19_Witness ==
    /\ AfterScan
    /\ \E i, j \in 1..Len(table.parts) :
          /\ i < j
          /\ GuidNotApfs(i)
          /\ Delegated(j)
          /\ PartitionCacheTouched

----------------------------------------------------------------------------
\* the orchestrator has returned from an invocation that created a new cache
\* file (none was there, or the one there was judged stale)
BuiltNew == OrchReturned /\ inv.judged \in {"absent", "invalid"}

\* the file the invocation found was left by the orchestrator of an earlier
\* invocation
FoundBuiltEarlier == Judged /\ inv.entry.built

(* C20 as stated: whenever the orchestrator returns after having built a   *)
(* new cache, the cache file holds the volume roles and identifiers and    *)
(* the schema version, on success and on failure returns alike.            *)
C20_BuiltCacheAlwaysComplete ==
    BuiltNew => Complete(files[inv.uuid], inv.cont)

(* C20 as amended: whenever the orchestrator returns after having built a  *)
(* new cache, the file exists and holds the volume info and the schema     *)
(* version exactly if the volumes could be read and, for a container with  *)
(* a SYSTEM volume, it has a DATA volume and the combined volume was       *)
(* created: every success return leaves a complete cache, and a failure    *)
(* return during the build leaves a file without version info (and without *)
(* volume info when the volumes could not be read).  A later invocation on *)
(* the same evidence judges a cache left by a build valid exactly if it    *)
(* holds the version info, and stale otherwise.                            *)
C20_BuiltCacheCompleteIfBuildSucceeded ==
    /\ BuiltNew =>
          /\ files[inv.uuid].exists /\ files[inv.uuid].built
          /\ files[inv.uuid].gen = 1
          /\ Complete(files[inv.uuid], inv.cont)
                <=> CanBuild(inv.cont, mac_info.password)
          /\ inv.result = "true" => Complete(files[inv.uuid], inv.cont)
          /\ ~CanBuild(inv.cont, mac_info.password) =>
                /\ inv.result = "false"
                /\ files[inv.uuid].ver = "none"
                /\ files[inv.uuid].vols =
                      IF ReadApfsVolumes(inv.cont, mac_info.password) = "raise"
                      THEN <<>> ELSE VolInfo(inv.cont.vols)
    /\ FoundBuiltEarlier =>
          /\ inv.entry.ver = "ok" => inv.judged = "valid"
          /\ inv.entry.ver # "ok" => inv.judged = "invalid"

C20_Witness ==
    /\ FoundBuiltEarlier /\ inv.entry.ver = "none"
    /\ inv.entry.vols = VolInfo(inv.cont.vols)
    /\ BuiltNew
    /\ files[inv.uuid].ver = "none"

----------------------------------------------------------------------------
\* the invocation found a cache file that the store cannot open or read: the
\* open or one of the two checks raised
FoundUnreadable == Judged /\ inv.entry.exists /\ inv.entry.corrupt

(* C21: when opening or validating an existing cache file fails with a     *)
(* read error (an exception of the store, not a 'not valid' answer), the   *)
(* orchestrator discards that file and rebuilds the cache from the live    *)
(* container, and the error does not make the container fail: the file     *)
(* left behind is a new, readable one, and the orchestrator does not       *)
(* return until the volumes were read for it.                              *)
C21_UnreadableCacheRebuilt ==
    (FoundUnreadable /\ OrchReturned) =>
        /\ inv.judged # "error"
        /\ files[inv.uuid].built /\ ~files[inv.uuid].corrupt
        /\ log.readVols

----------------------------------------------------------------------------
\* the volumes of a container whose root holds the version descriptor
Passing(vols) == {i \in 1..Len(vols) : vols[i].ver}
FirstPassing(vols) == CHOOSE i \in Passing(vols) : \A j \in Passing(vols) : i <= j

\* the roots of the first n volumes of the container the orchestrator is at
VolumeRoots(n) ==
    {VolFS(mac_info.macos_partition_start_offset, inv.cont.vols[i]) : i \in 1..n}

\* the orchestrator is about to search a container without SYSTEM volume
SearchesLegacyContainer == pc = "orch_validate" /\ ~HasRole(inv.cont, "SYSTEM")

(* C22: for a container with no SYSTEM volume the orchestrator tries the   *)
(* volumes in container order and returns success with the active          *)
(* filesystem set to the first volume whose root passes the validator,     *)
(* the volumes after it not being tried; if no volume passes, it returns   *)
(* failure with the active filesystem cleared.                             *)
C22_FirstPassingVolumeWins ==
    [][ SearchesLegacyContainer =>
          IF Passing(inv.cont.vols) # {}
          THEN /\ inv'.result = "true" /\ found_macos'
               /\ mac_info'.macos_FS =
                     VolFS(mac_info.macos_partition_start_offset,
                           inv.cont.vols[FirstPassing(inv.cont.vols)])
               /\ log'.validated =
                     log.validated \cup VolumeRoots(FirstPassing(inv.cont.vols))
          ELSE /\ inv'.result = "false" /\ ~found_macos'
               /\ mac_info'.macos_FS = NoFS
               /\ log'.validated =
                     log.validated \cup VolumeRoots(Len(inv.cont.vols))
      ]_vars

C22_Witness ==
    /\ OrchReturned /\ pc = "vol_info" /\ caller = "whole"
    /\ inv.cont = C_LL /\ inv.result = "true"
    /\ mac_info.macos_FS = VolFS(0, C_LL.vols[1])
    /\ VolFS(0, C_LL.vols[2]) \notin log.validated

----------------------------------------------------------------------------
\* the validator was run against fs and logged something about the kernel
KernelLogged(fs) == \E k \in {"found", "missing"} : <<fs, k>> \in log.kernel

\* a kernel is at one of the two canonical paths of fs
KernelPresent(fs) == FilePresent(fs, KernelsKernel) \/ FilePresent(fs, MachKernel)

(* C23: the installation validator confirms a filesystem if and only if    *)
(* the version-descriptor file is present on it; whether a kernel is at    *)
(* one of the two canonical paths never changes the result (it only        *)
(* decides what is logged, and is looked at only once the descriptor was   *)
(* found), and the system and user metadata are populated only when the    *)
(* descriptor is present.  Stated for every filesystem the run validated.  *)
C23_DescriptorDecides ==
    /\ \A fs \in log.validated :
          LET r == FindMacOsFiles([mac_info EXCEPT !.macos_FS = fs,
                                                   !.sysinfo = FALSE]) IN
            /\ r.ok = FilePresent(fs, SystemVersionPlist)
            /\ r.mi.sysinfo = FilePresent(fs, SystemVersionPlist)
            /\ KernelLogged(fs) <=> FilePresent(fs, SystemVersionPlist)
            /\ <<fs, "found">> \in log.kernel => KernelPresent(fs)
            /\ <<fs, "missing">> \in log.kernel => ~KernelPresent(fs)
    /\ mac_info.sysinfo =>
          \E fs \in log.validated : FilePresent(fs, SystemVersionPlist)
    /\ found_macos =>
          /\ mac_info.macos_FS \in log.validated
          /\ FilePresent(mac_info.macos_FS, SystemVersionPlist)
          /\ mac_info.sysinfo

C23_Witness ==
    /\ found_macos /\ pc = "done"
    /\ <<mac_info.macos_FS, "missing">> \in log.kernel
    /\ \E fs \in log.validated :
          ~FilePresent(fs, SystemVersionPlist) /\ KernelPresent(fs)

----------------------------------------------------------------------------
\* the table lists a 'GPT Header' META entry before its i-th partition, so
\* that the scan has derived the offset of the entry array when it reaches it
HeaderSeenBefore(i) == table.hdr # -1 /\ table.hdr < i

\* the scan has made the type GUID check for the i-th partition
BootChecked(i) == <<"boot", PartOffset(i)>> \in log.probes

(* C24: in the partition scan the bootable-marker check is made only at    *)
(* partitions_offset + 128 * slot_index with partitions_offset derived     *)
(* from a 'GPT Header' META entry seen earlier in the same scan, never     *)
(* with the initial value -1, whatever the table order or partition        *)
(* scheme.                                                                 *)
C24_BootCheckOnlyAfterGptHeader ==
    \A i \in 1..Len(table.parts) : BootChecked(i) => HeaderSeenBefore(i)

----------------------------------------------------------------------------
\* the cache store handles that are open
OpenHandles == {h \in 1..Len(handles) : handles[h].open}

(* C25: every cache store handle opened during a run is closed exactly     *)
(* once by the end of the run, also when the orchestrator is invoked more  *)
(* than once in the run and when the cache validation throws, and at most  *)
(* one cache store is open at any time.                                    *)
C25_CacheHandlesClosedOnce ==
    /\ Cardinality(OpenHandles) <= 1
    /\ pc = "done" =>
          \A h \in 1..Len(handles) : ~handles[h].open /\ handles[h].closes = 1

----------------------------------------------------------------------------
\* the final cleanup has run: lines 669-676
CleanupDone == pc = "done"

\* the plugins the command line of the run selected, in plugin-list order
SelectedPlugins == PluginsToStart(Plugins, SelectPlugins(args_plugin).to_run)

(* C26: after FOUND every selected plugin is started exactly once, in the  *)
(* order of the plugin list; an exception raised by a plugin prevents      *)
(* neither the start of the remaining selected plugins nor the final       *)
(* cleanup (closing the image, the cache of the context, the export log).  *)
C26_PluginsAllStartedOnce ==
    (found_macos /\ pc \in {"plugin_loop", "cleanup", "done"}) =>
        /\ \E n \in 0..Len(SelectedPlugins) :
              plugins_run = SubSeq(SelectedPlugins, 1, n)
        /\ \A i, j \in 1..Len(plugins_run) :
              plugins_run[i] = plugins_run[j] => i = j
        /\ log.pluginErrors \subseteq {plugins_run[i] : i \in 1..Len(plugins_run)}
        /\ pc \in {"cleanup", "done"} => plugins_run = SelectedPlugins
        /\ CleanupDone =>
              /\ ~img.open
              /\ ~export_log_sqlite.open /\ export_log_sqlite.closes = 1
              /\ (mac_info.is_apfs /\ mac_info.apfs_db # 0) =>
                    ~handles[mac_info.apfs_db].open

C26_Witness ==
    /\ found_macos /\ CleanupDone
    /\ log.pluginErrors = {"SPOTLIGHT"}
    /\ plugins_run = Plugins
    /\ mac_info.is_apfs /\ mac_info.apfs_db # 0

====
